---- MODULE Spec2Model ----
(***************************************************************************)
(* Sudoku Duel (src/sudoku_duel.py): the puzzle generator, the candidate   *)
(* calculator, the lazily-deleted priority queue of constrained cells and  *)
(* the move handlers of class SudokuDuel, as a state machine.              *)
(*                                                                         *)
(* Rows and columns are numbered 0..8 as in the source; a board is a       *)
(* function board[r][c] like the source's list of lists.                   *)
(***************************************************************************)
EXTENDS Integers, FiniteSets, Sequences, TLC

VARIABLES
    board,          \* self.board
    initial_board,  \* self.initial_board
    current_turn,   \* self.current_turn: "user" or "ai"
    pq,             \* self.pq: the heap, as a bag (entry -> multiplicity)
    disabled,       \* the cells whose Entry widget is in state "disabled"
    pending,        \* number of root.after(500, self.ai_turn) callbacks not yet run
    used,           \* bookkeeping that bounds the exploration (see the Max* bounds)
    last            \* the handler that ran last and what it returned / touched

vars == <<board, initial_board, current_turn, pq, disabled, pending, used, last>>

-----------------------------------------------------------------------------
(* Program constants *)

N == 9          \* side of the grid
B == 3          \* side of a box, and number of bands / stacks
MinRemove == 40 \* random.randint(40, 45)
MaxRemove == 45

Idx == 0..(N - 1)
Digits == 1..N
Cells == Idx \X Idx

-----------------------------------------------------------------------------
(* Bounds of the exploration *)

NumSeeds == 2       \* generator inputs offered to a new game (session creation included)
MaxEdits == 2       \* user edits that change the session, per exploration
MaxPlays == 1       \* AI Play presses once the user has edited a cell (before, any number)
MaxRestarts == 1    \* New Game / Reset presses, per exploration
MaxPending == 2     \* ai_turn callbacks that may be outstanding at once
NumEditCells == 2   \* cells of the puzzle the user's edits are aimed at (besides one clue)
NumRelabels == 3    \* digit relabelings offered to the generator on its own
NumPerms == 2       \* permutations of three offered to each shuffle of the generator on its own
NumOrders == 3      \* shuffled cell lists offered to the removal of cells on its own
NumTestCells == 3   \* cells given arbitrary contents when the calculator is run on its own

-----------------------------------------------------------------------------
(* Grid helpers *)

EmptyGrid == [r \in Idx |-> [c \in Idx |-> 0]]

BoxStart(x) == B * (x \div B)

RowVals(b, row) == {b[row][j] : j \in Idx}
ColVals(b, col) == {b[i][col] : i \in Idx}
BoxVals(b, row, col) ==
    {b[i][j] : i \in BoxStart(row)..(BoxStart(row) + B - 1),
               j \in BoxStart(col)..(BoxStart(col) + B - 1)}

\* is_valid without its 3x3 box check
is_valid_no_box(b, row, col, num) ==
    IF num \in RowVals(b, row) THEN FALSE
    ELSE IF num \in ColVals(b, col) THEN FALSE
    ELSE TRUE

\* is_valid without its column check
is_valid_no_col(b, row, col, num) ==
    IF num \in RowVals(b, row) THEN FALSE
    ELSE IF \E i \in BoxStart(row)..(BoxStart(row) + B - 1),
               j \in BoxStart(col)..(BoxStart(col) + B - 1) : b[i][j] = num THEN FALSE
    ELSE TRUE

\* is_valid(board, row, col, num)
is_valid(b, row, col, num) ==
    IF num \in RowVals(b, row) THEN FALSE
    ELSE IF num \in ColVals(b, col) THEN FALSE
    ELSE IF \E i \in BoxStart(row)..(BoxStart(row) + B - 1),
               j \in BoxStart(col)..(BoxStart(col) + B - 1) : b[i][j] = num THEN FALSE
    ELSE TRUE

\* get_candidates without the removal of the box's digits
get_candidates_no_box(b, row, col) ==
    IF b[row][col] # 0 THEN {}
    ELSE (Digits \ RowVals(b, row)) \ ColVals(b, col)

\* get_candidates(board, row, col)
get_candidates(b, row, col) ==
    IF b[row][col] # 0 THEN {}
    ELSE ((Digits \ RowVals(b, row)) \ ColVals(b, col)) \ BoxVals(b, row, col)

\* is_complete()
is_complete(b) == ~ \E i \in Idx, j \in Idx : b[i][j] = 0

-----------------------------------------------------------------------------
(* Puzzle generator *)

\* The permutations of three positions a random.shuffle of a block of three can produce:
\* after the shuffle, position k holds what position p[k] held.
Perm(a, b, c) == [k \in 0..(B - 1) |-> IF k = 0 THEN a ELSE IF k = 1 THEN b ELSE c]
AllPerms == <<Perm(1, 0, 2), Perm(2, 0, 1), Perm(0, 1, 2),
              Perm(0, 2, 1), Perm(1, 2, 0), Perm(2, 1, 0)>>
PermAt(i) == AllPerms[(i % Len(AllPerms)) + 1]

\* pattern without the shift by r // 3
pattern_no_shift(r, c) == (B * (r % B) + c) % N

\* pattern(r, c) of get_base_pattern
pattern(r, c) == (B * (r % B) + r \div B + c) % N

\* get_base_pattern(), for the shuffled list nums (nums[0..8], a permutation of 1..9)
get_base_pattern(nums) == [r \in Idx |-> [c \in Idx |-> nums[pattern(r, c)]]]

\* list(map(list, zip(*board)))
Transpose(b) == [r \in Idx |-> [c \in Idx |-> b[c][r]]]

\* for i in range(0, 9, 3): block = board[i:i+3]; random.shuffle(block); board[i:i+3] = block
\* ps[g] is the permutation the shuffle of group g produced
ShuffleWithin(b, ps) == [r \in Idx |-> b[B * (r \div B) + ps[r \div B][r % B]]]

\* bands = [board[i:i+3] ...]; random.shuffle(bands); board = [row for band in bands for row in band]
ShuffleGroups(b, p) == [r \in Idx |-> b[B * p[r \div B] + (r % B)]]

ShuffleRows(b, rp) == ShuffleWithin(b, rp)
ShuffleCols(b, cp) == Transpose(ShuffleWithin(Transpose(b), cp))
ShuffleBands(b, bp) == ShuffleGroups(b, bp)
ShuffleStacks(b, sp) == Transpose(ShuffleGroups(Transpose(b), sp))

\* shuffle_board(board)
shuffle_board(b, rp, cp, bp, sp) ==
    ShuffleStacks(ShuffleBands(ShuffleCols(ShuffleRows(b, rp), cp), bp), sp)

\* the removal loop running once more than remove_count says
remove_cells_one_more(full, cells, remove_count) ==
    LET removed == {cells[i] : i \in 0..remove_count}
    IN  [r \in Idx |-> [c \in Idx |-> IF <<r, c>> \in removed THEN 0 ELSE full[r][c]]]

\* for i in range(remove_count): r, c = cells[i]; self.board[r][c] = 0
remove_cells(full, cells, remove_count) ==
    LET removed == {cells[i] : i \in 0..(remove_count - 1)}
    IN  [r \in Idx |-> [c \in Idx |-> IF <<r, c>> \in removed THEN 0 ELSE full[r][c]]]

\* generate_puzzle(): g holds what the random source produced
\*   g.nums: the shuffled digit list; g.rp, g.cp, g.bp, g.sp: the shuffles;
\*   g.cells: the shuffled list of the 81 cells; g.remove_count: randint(40, 45)
generate_puzzle(g) ==
    remove_cells(shuffle_board(get_base_pattern(g.nums), g.rp, g.cp, g.bp, g.sp),
                 g.cells, g.remove_count)

-----------------------------------------------------------------------------
(* The priority queue self.pq.  The heap is kept as a bag of entries           *)
(* (count, row, col, candidates); heappop hands out an entry no other entry    *)
(* is smaller than, in Python's tuple order.                                   *)

Entry(n, row, col, cands) == [count |-> n, row |-> row, col |-> col, cands |-> cands]

EmptyPQ == [e \in {} |-> 0]

\* len(self.pq)
PQSize(q) == LET RECURSIVE Sum(_)
                 Sum(S) == IF S = {} THEN 0
                           ELSE LET e == CHOOSE x \in S : TRUE IN q[e] + Sum(S \ {e})
             IN  Sum(DOMAIN q)

\* the heap after heappop handed out e
PopEntry(q, e) ==
    IF q[e] > 1 THEN [q EXCEPT ![e] = @ - 1]
    ELSE [x \in (DOMAIN q) \ {e} |-> q[x]]

SetMin(S) == CHOOSE x \in S : \A y \in S : x <= y

\* The entries heappop may hand out of a heap holding the entries S: those with the
\* least (count, row, col); two entries equal in all three are told apart by their
\* candidate sets, where Python's "<" is the proper-subset test.
HeapMin(S) ==
    LET n0 == SetMin({e.count : e \in S})
        S0 == {e \in S : e.count = n0}
        r0 == SetMin({e.row : e \in S0})
        S1 == {e \in S0 : e.row = r0}
        c0 == SetMin({e.col : e \in S1})
        S2 == {e \in S1 : e.col = c0}
    IN  {e \in S2 : ~ \E f \in S2 : f.cands # e.cands /\ f.cands \subseteq e.cands}

\* e comes out of the heap before f whatever the ties: its (count, row, col) is less
KeyLess(e, f) ==
    \/ e.count < f.count
    \/ e.count = f.count /\ e.row < f.row
    \/ e.count = f.count /\ e.row = f.row /\ e.col < f.col

\* initialize_priority_queue()
initialize_priority_queue(b) ==
    LET Pushed(cell) == LET candidates == get_candidates(b, cell[1], cell[2])
                        IN  Entry(Cardinality(candidates), cell[1], cell[2], candidates)
        open == {cell \in Cells : b[cell[1]][cell[2]] = 0
                                  /\ get_candidates(b, cell[1], cell[2]) # {}}
    IN  [e \in {Pushed(cell) : cell \in open} |-> 1]

\* the set neighbours of update_neighbors(row, col)
Neighbours(row, col) ==
    {<<row, i>> : i \in Idx} \cup {<<i, col>> : i \in Idx}
    \cup {<<i, j>> : i \in BoxStart(row)..(BoxStart(row) + B - 1),
                     j \in BoxStart(col)..(BoxStart(col) + B - 1)}

\* update_neighbors pushing only for the neighbours that have a candidate
update_neighbors_filtered(b, q, row, col) ==
    LET Pushed(cell) == LET candidates == get_candidates(b, cell[1], cell[2])
                        IN  Entry(Cardinality(candidates), cell[1], cell[2], candidates)
        new == {Pushed(cell) : cell \in {x \in Neighbours(row, col) :
                                            get_candidates(b, x[1], x[2]) # {}}}
        dom == DOMAIN q
    IN  [x \in dom \cup new |->
            (IF x \in dom THEN q[x] ELSE 0) + (IF x \in new THEN 1 ELSE 0)]

\* update_neighbors(row, col): one push per neighbour, whatever its candidate set
update_neighbors(b, q, row, col) ==
    LET Pushed(cell) == LET candidates == get_candidates(b, cell[1], cell[2])
                        IN  Entry(Cardinality(candidates), cell[1], cell[2], candidates)
        new == {Pushed(cell) : cell \in Neighbours(row, col)}
        dom == DOMAIN q
    IN  [x \in dom \cup new |->
            (IF x \in dom THEN q[x] ELSE 0) + (IF x \in new THEN 1 ELSE 0)]

\* the lazy-deletion check: if self.board[row][col] != 0: continue
IsStale(b, e) == b[e.row][e.col] # 0

\* The pops of ai_make_move's loop that hit stale entries, up to the first entry of
\* an empty cell: heappop hands the entries out in heap order, so the loop drops
\* every entry that precedes the least entry of an empty cell, and all of them when
\* no entry is of an empty cell.
SkipStale(b, q) ==
    LET dom == DOMAIN q
        fresh == {e \in dom : ~ IsStale(b, e)}
    IN  IF fresh = {} THEN EmptyPQ
        ELSE LET first == CHOOSE e \in HeapMin(fresh) : TRUE
                 kept == {e \in dom : ~ KeyLess(e, first)}
             IN  IF kept = dom THEN q ELSE [e \in kept |-> q[e]]

-----------------------------------------------------------------------------
(* The handlers, as functions of the session they run on *)

NoCell == 0 - 1

\* ai_make_move without the lazy-deletion check, acting on the entry's cached
\* candidates
ai_make_move_trusting(b, q) ==
    IF DOMAIN q = {}
    THEN {[success |-> FALSE, board |-> b, pq |-> q, skipped |-> FALSE,
           row |-> NoCell, col |-> NoCell, value |-> 0]}
    ELSE UNION {
           LET q2 == PopEntry(q, e)
           IN  IF e.cands = {}
               THEN {[success |-> FALSE, board |-> b, pq |-> q2, skipped |-> FALSE,
                      row |-> e.row, col |-> e.col, value |-> 0]}
               ELSE {LET nb == [b EXCEPT ![e.row][e.col] = value]
                     IN  [success |-> TRUE, board |-> nb, skipped |-> FALSE,
                          pq |-> update_neighbors(nb, q2, e.row, e.col),
                          row |-> e.row, col |-> e.col, value |-> value]
                     : value \in e.cands}
           : e \in HeapMin(DOMAIN q)}

\* a digit written before the candidates are looked at, and left there
NoMove_after_write(b, q, skipped, row, col) ==
    [success |-> FALSE, pq |-> q, skipped |-> skipped, row |-> row, col |-> col, value |-> 0,
     board |-> IF row = NoCell THEN b ELSE [b EXCEPT ![row][col] = 1]]

\* return False: the loop ran out of entries (row = col = NoCell), or the cell
\* popped has no candidate
NoMove(b, q, skipped, row, col) ==
    [success |-> FALSE, board |-> b, pq |-> q, skipped |-> skipped,
     row |-> row, col |-> col, value |-> 0]

\* the move not made
Place_nowhere(b, row, col, value) == b

\* Make the move: self.board[row][col] = value
Place(b, row, col, value) == [b EXCEPT ![row][col] = value]

\* ai_make_move(): every outcome the random choices allow.  success is the value
\* returned; row, col, value are the move made (or the entry given up on); skipped
\* tells whether the loop met a stale entry.
ai_make_move(b, q) ==
    LET q1 == SkipStale(b, q)
    IN  IF DOMAIN q1 = {}
        THEN {NoMove(b, q1, q1 # q, NoCell, NoCell)}
        ELSE UNION {
               LET q2 == PopEntry(q1, e)
                   current_candidates == get_candidates(b, e.row, e.col)
               IN  IF current_candidates = {}
                   THEN {NoMove(b, q2, q1 # q, e.row, e.col)}
                   ELSE {LET nb == Place(b, e.row, e.col, value)
                         IN  [success |-> TRUE, board |-> nb, skipped |-> q1 # q,
                              pq |-> update_neighbors(nb, q2, e.row, e.col),
                              row |-> e.row, col |-> e.col, value |-> value]
                         : value \in current_candidates}
               : e \in HeapMin(DOMAIN q1)}

\* What the user left in the Entry widget: nothing (after strip), text that int()
\* rejects, or the text of an integer.
EmptyText == [kind |-> "empty", num |-> 0]
BadText == [kind |-> "text", num |-> 0]
IntText(n) == [kind |-> "int", num |-> n]

\* num = int(value); if num < 1 or num > 9: raise ValueError
RaisesValueError(value) == value.kind = "text" \/ value.num < 1 \/ value.num > 9

\* the lock check left out
IsLocked_never(ib, row, col) == FALSE

\* if self.initial_board[row][col] != 0: return
IsLocked(ib, row, col) == ib[row][col] # 0

\* the rejected move's cell left cleared
RestoreCell_forgotten(b, row, col, temp) == b

\* the else branch of the validation: self.board[row][col] = temp
RestoreCell(b, row, col, temp) == [b EXCEPT ![row][col] = temp]

\* the except branch leaving the board alone
OnValueError_keeps(b, row, col) == b

\* the except branch: cell.delete(0, tk.END); self.board[row][col] = 0
OnValueError(b, row, col) == [b EXCEPT ![row][col] = 0]

\* the branch for an emptied widget also pushing entries for the neighbours
OnClear_refreshing(b, q, row, col) ==
    [board |-> [b EXCEPT ![row][col] = 0],
     pq |-> update_neighbors([b EXCEPT ![row][col] = 0], q, row, col)]

\* if value == "": self.board[row][col] = 0; return
OnClear(b, q, row, col) == [board |-> [b EXCEPT ![row][col] = 0], pq |-> q]

\* on_cell_edit(row, col) with value in the cell's widget.  scheduled is the number
\* of root.after(500, self.ai_turn) calls made.
on_cell_edit(b, ib, turn, q, row, col, value) ==
    LET same(res) == [board |-> b, pq |-> q, current_turn |-> turn,
                      scheduled |-> 0, result |-> res]
    IN  IF turn # "user" THEN same("NotUsersTurn")
        ELSE IF IsLocked(ib, row, col) THEN same("Locked")
        ELSE IF value.kind = "empty"
             THEN [same("Cleared") EXCEPT !.board = OnClear(b, q, row, col).board,
                                          !.pq = OnClear(b, q, row, col).pq]
        ELSE IF RaisesValueError(value)
             THEN [same("ValueError") EXCEPT !.board = OnValueError(b, row, col)]
        ELSE LET num == value.num
                 temp == b[row][col]
                 b0 == [b EXCEPT ![row][col] = 0]
             IN  IF is_valid(b0, row, col, num)
                 THEN LET b1 == [b0 EXCEPT ![row][col] = num]
                          q1 == update_neighbors(b1, q, row, col)
                      IN  IF is_complete(b1)
                          THEN [board |-> b1, pq |-> q1, current_turn |-> turn,
                                scheduled |-> 0, result |-> "Completed"]
                          ELSE [board |-> b1, pq |-> q1, current_turn |-> "ai",
                                scheduled |-> 1, result |-> "Accepted"]
                 ELSE [same("InvalidMove") EXCEPT !.board = RestoreCell(b0, row, col, temp)]

\* ai_turn handing the turn to the user whatever ai_make_move returned
ai_turn_flag_releasing(turn, success, complete) == "user"

\* ai_turn(): the turn flag after ai_make_move returned success on a grid that is
\* now complete or not
ai_turn_flag(turn, success, complete) ==
    IF ~ success THEN turn
    ELSE IF complete THEN turn
    ELSE "user"

\* ai_play handing the turn to the user after a move
ai_play_flag_switching(turn, success, complete) == IF success THEN "user" ELSE turn

\* ai_play(): the turn flag is not assigned
ai_play_flag(turn, success, complete) == turn

\* reset_board without self.current_turn = "user"
reset_board_keeps_turn(b, ib, turn) ==
    [board |-> ib, initial_board |-> ib, current_turn |-> turn]

\* reset_board()
reset_board(b, ib, turn) == [board |-> ib, initial_board |-> ib, current_turn |-> "user"]

-----------------------------------------------------------------------------
(* The inputs offered to the exploration *)

Mults == <<1, 2, 4, 5, 7, 8>>        \* multipliers coprime to 9
Strides == <<7, 10, 5, 8, 11, 13>>   \* strides coprime to 81

\* a shuffled digit list: nums[k], k in 0..8, a permutation of 1..9
Relabel(i) == [k \in Idx |-> ((Mults[(i % Len(Mults)) + 1] * k + i) % N) + 1]

\* a shuffled list of the 81 cells: position n holds cell number (stride * n) mod 81
CellOrder(i) ==
    [n \in 0..(N * N - 1) |->
        LET m == (Strides[(i % Len(Strides)) + 1] * n) % (N * N)
        IN  <<m \div N, m % N>>]

\* what the random source hands generate_puzzle, the i-th of the offered cases
Seed(i) ==
    [nums |-> Relabel(i),
     rp |-> [k \in 0..(B - 1) |-> PermAt(i + k)],
     cp |-> [k \in 0..(B - 1) |-> PermAt(i + k + 1)],
     bp |-> PermAt(i + 1),
     sp |-> PermAt(i + 4),
     cells |-> CellOrder(i),
     remove_count |-> MinRemove + (i % (MaxRemove - MinRemove + 1))]

Seeds == {Seed(i) : i \in 0..(NumSeeds - 1)}

\* render_board(): every widget is set to "normal", and a clue's widget to "disabled"
render_board(b, ib) == {cell \in Cells : b[cell[1]][cell[2]] # 0 /\ ib[cell[1]][cell[2]] # 0}

\* what the user may leave in a cell whose widget takes input
EditValues == {EmptyText, BadText} \cup {IntText(n) : n \in 0..(N + 1)}

\* the cells the user's key presses land in: the last NumEditCells cells the puzzle
\* left empty, in reading order, and the first clue
RECURSIVE ScanCells(_, _, _, _, _)
ScanCells(ib, n, step, k, wantEmpty) ==
    IF k = 0 \/ n < 0 \/ n >= N * N THEN {}
    ELSE IF (ib[n \div N][n % N] = 0) = wantEmpty
         THEN {<<n \div N, n % N>>} \cup ScanCells(ib, n + step, step, k - 1, wantEmpty)
         ELSE ScanCells(ib, n + step, step, k, wantEmpty)

EditCells(ib) ==
    ScanCells(ib, N * N - 1, 0 - 1, NumEditCells, TRUE) \cup ScanCells(ib, 0, 1, 1, FALSE)

\* the text a key release finds in a cell: a disabled widget still shows the digit
\* that was inserted into it
CellTexts(b, dis, cell) ==
    IF cell \in dis THEN {IntText(b[cell[1]][cell[2]])} ELSE EditValues

-----------------------------------------------------------------------------
(* The session *)

\* new_game(), generate_puzzle() having drawn g
new_game(g) ==
    LET puzzle == generate_puzzle(g)
    IN  [board |-> puzzle, initial_board |-> puzzle, current_turn |-> "user",
         pq |-> initialize_priority_queue(puzzle)]

Ran(op, result, row, col, value) ==
    [op |-> op, result |-> result, row |-> row, col |-> col, value |-> value,
     skipped |-> FALSE, cands |-> {}]

\* __init__: new_game(), and then self.pq = []
Init ==
    \E g \in Seeds :
        /\ board = new_game(g).board
        /\ initial_board = new_game(g).initial_board
        /\ current_turn = new_game(g).current_turn
        /\ pq = EmptyPQ
        /\ disabled = render_board(new_game(g).board, new_game(g).initial_board)
        /\ pending = 0
        /\ used = [edits |-> 0, restarts |-> 0, plays |-> 0]
        /\ last = Ran("__init__", "-", NoCell, NoCell, 0)

\* the New Game button
NewGame ==
    /\ used.restarts < MaxRestarts
    /\ \E g \in Seeds :
        LET s == new_game(g)
        IN  /\ board' = s.board
            /\ initial_board' = s.initial_board
            /\ current_turn' = s.current_turn
            /\ pq' = s.pq
            /\ disabled' = render_board(s.board, s.initial_board)
    /\ used' = [used EXCEPT !.restarts = @ + 1]
    /\ last' = Ran("new_game", "-", NoCell, NoCell, 0)
    /\ UNCHANGED pending

\* the Reset button; a press that finds nothing to restore changes nothing
ResetBoard ==
    LET s == reset_board(board, initial_board, current_turn)
    IN  IF s.board = board /\ s.current_turn = current_turn
           /\ render_board(s.board, s.initial_board) = disabled
        THEN UNCHANGED vars
        ELSE /\ used.restarts < MaxRestarts
             /\ board' = s.board
             /\ initial_board' = s.initial_board
             /\ current_turn' = s.current_turn
             /\ disabled' = render_board(s.board, s.initial_board)
             /\ used' = [used EXCEPT !.restarts = @ + 1]
             /\ last' = Ran("reset_board", "-", NoCell, NoCell, 0)
             /\ UNCHANGED <<pq, pending>>

\* a key release in a cell; a handler run that leaves the session as it was is a
\* step that changes nothing
CellEdit ==
    /\ used.edits < MaxEdits
    /\ \E cell \in EditCells(initial_board) :
        \E value \in CellTexts(board, disabled, cell) :
          LET out == on_cell_edit(board, initial_board, current_turn, pq,
                                  cell[1], cell[2], value)
          IN  IF out.board = board /\ out.pq = pq /\ out.current_turn = current_turn
              THEN UNCHANGED vars
              ELSE /\ pending + out.scheduled <= MaxPending
                   /\ board' = out.board
                   /\ pq' = out.pq
                   /\ current_turn' = out.current_turn
                   /\ pending' = pending + out.scheduled
                   /\ used' = [used EXCEPT !.edits = @ + 1]
                   /\ last' = Ran("on_cell_edit", out.result, cell[1], cell[2], value.num)
                   /\ UNCHANGED <<initial_board, disabled>>

\* the callback root.after(500, self.ai_turn) scheduled
AiTurn ==
    /\ pending > 0
    /\ \E out \in ai_make_move(board, pq) :
        /\ board' = out.board
        /\ pq' = out.pq
        /\ current_turn' = ai_turn_flag(current_turn, out.success, is_complete(out.board))
        /\ disabled' = IF out.success THEN disabled \cup {<<out.row, out.col>>} ELSE disabled
        /\ last' = [Ran("ai_turn", IF out.success THEN "Placed" ELSE "NoMove",
                        out.row, out.col, out.value) EXCEPT !.skipped = out.skipped]
    /\ pending' = pending - 1
    /\ UNCHANGED <<initial_board, used>>

\* the AI Play button
AiPlay ==
    /\ used.edits = 0 \/ used.plays < MaxPlays
    /\ \E out \in ai_make_move(board, pq) :
        IF out.board = board /\ out.pq = pq
        THEN UNCHANGED vars
        ELSE /\ used' = IF used.edits = 0 THEN used ELSE [used EXCEPT !.plays = @ + 1]
             /\ board' = out.board
             /\ pq' = out.pq
             /\ current_turn' = ai_play_flag(current_turn, out.success, is_complete(out.board))
             /\ disabled' = IF out.success THEN disabled \cup {<<out.row, out.col>>}
                                            ELSE disabled
             /\ last' = [Ran("ai_play", IF out.success THEN "Placed" ELSE "NoMove",
                             out.row, out.col, out.value) EXCEPT !.skipped = out.skipped]
             /\ UNCHANGED <<initial_board, pending>>

Next == NewGame \/ ResetBoard \/ CellEdit \/ AiTurn \/ AiPlay

Spec == Init /\ [][Next]_vars

-----------------------------------------------------------------------------
(* The generator on its own: get_base_pattern, then the four shuffles of         *)
(* shuffle_board one after the other, on self.board.                             *)

OfferedPerms == {PermAt(i) : i \in 0..(NumPerms - 1)}

Idle ==
    /\ initial_board = EmptyGrid
    /\ current_turn = "user"
    /\ pq = EmptyPQ
    /\ disabled = {}
    /\ pending = 0
    /\ used = [edits |-> 0, restarts |-> 0, plays |-> 0]

IdleStays == UNCHANGED <<initial_board, current_turn, pq, disabled, pending, used>>

GenInit ==
    /\ \E i \in 0..(NumRelabels - 1) : board = get_base_pattern(Relabel(i))
    /\ last = Ran("get_base_pattern", "-", NoCell, NoCell, 0)
    /\ Idle

GenShuffleRows ==
    /\ last.op = "get_base_pattern"
    /\ \E rp \in [0..(B - 1) -> OfferedPerms] : board' = ShuffleRows(board, rp)
    /\ last' = Ran("shuffle_rows", "-", NoCell, NoCell, 0)
    /\ IdleStays

GenShuffleCols ==
    /\ last.op = "shuffle_rows"
    /\ \E cp \in [0..(B - 1) -> OfferedPerms] : board' = ShuffleCols(board, cp)
    /\ last' = Ran("shuffle_cols", "-", NoCell, NoCell, 0)
    /\ IdleStays

GenShuffleBands ==
    /\ last.op = "shuffle_cols"
    /\ \E bp \in OfferedPerms : board' = ShuffleBands(board, bp)
    /\ last' = Ran("shuffle_bands", "-", NoCell, NoCell, 0)
    /\ IdleStays

GenShuffleStacks ==
    /\ last.op = "shuffle_bands"
    /\ \E sp \in OfferedPerms : board' = ShuffleStacks(board, sp)
    /\ last' = Ran("shuffle_stacks", "-", NoCell, NoCell, 0)
    /\ IdleStays

GenNext == GenShuffleRows \/ GenShuffleCols \/ GenShuffleBands \/ GenShuffleStacks

SpecGen == GenInit /\ [][GenNext]_vars

-----------------------------------------------------------------------------
(* A new game on its own: the solved grid of generate_puzzle's first two steps,  *)
(* then the removal of cells, then the rest of new_game.                         *)

OfferedOrders == {CellOrder(i) : i \in 0..(NumOrders - 1)}

PuzInit ==
    /\ \E i \in 0..(NumRelabels - 1), bp \in OfferedPerms, sp \in OfferedPerms :
          board = shuffle_board(get_base_pattern(Relabel(i)), Seed(i).rp, Seed(i).cp, bp, sp)
    /\ last = Ran("shuffle_board", "-", NoCell, NoCell, 0)
    /\ Idle

\* generate_puzzle(), from random.shuffle(cells) on; last.value is remove_count
PuzRemove ==
    /\ last.op = "shuffle_board"
    /\ \E cells \in OfferedOrders, remove_count \in MinRemove..MaxRemove :
          /\ board' = remove_cells(board, cells, remove_count)
          /\ last' = Ran("generate_puzzle", "-", NoCell, NoCell, remove_count)
    /\ IdleStays

\* new_game(), after generate_puzzle() returned
PuzNewGame ==
    /\ last.op = "generate_puzzle"
    /\ initial_board' = board
    /\ current_turn' = "user"
    /\ pq' = initialize_priority_queue(board)
    /\ disabled' = render_board(board, board)
    /\ last' = Ran("new_game", "-", NoCell, NoCell, 0)
    /\ UNCHANGED <<board, pending, used>>

PuzNext == PuzRemove \/ PuzNewGame

SpecPuzzle == PuzInit /\ [][PuzNext]_vars

-----------------------------------------------------------------------------
(* The AI on its own: AI Play pressed again and again, on a session just         *)
(* created, just restarted with New Game, or in which the user has placed one    *)
(* digit.  used.edits counts the user's digit and used.plays the digits the AI   *)
(* has placed.                                                                   *)

FillInit ==
    /\ \E g \in Seeds :
        LET s == new_game(g)
        IN  /\ initial_board = s.initial_board
            /\ disabled = render_board(s.board, s.initial_board)
            /\ \/ /\ board = s.board /\ current_turn = s.current_turn /\ pending = 0
                   /\ pq = EmptyPQ
                   /\ used = [edits |-> 0, restarts |-> 0, plays |-> 0]
                   /\ last = Ran("__init__", "-", NoCell, NoCell, 0)
               \/ /\ board = s.board /\ current_turn = s.current_turn /\ pending = 0
                   /\ pq = s.pq
                   /\ used = [edits |-> 0, restarts |-> 0, plays |-> 0]
                   /\ last = Ran("new_game", "-", NoCell, NoCell, 0)
               \/ \E cell \in EditCells(s.initial_board), d \in Digits :
                     LET out == on_cell_edit(s.board, s.initial_board, s.current_turn, s.pq,
                                             cell[1], cell[2], IntText(d))
                     IN  /\ out.result = "Accepted"
                         /\ board = out.board /\ current_turn = out.current_turn
                         /\ pq = out.pq /\ pending = out.scheduled
                         /\ used = [edits |-> 1, restarts |-> 0, plays |-> 0]
                         /\ last = Ran("on_cell_edit", out.result, cell[1], cell[2], d)

\* the AI Play button
FillPlay ==
    /\ \E out \in ai_make_move(board, pq) :
        /\ board' = out.board
        /\ pq' = out.pq
        /\ current_turn' = ai_play_flag(current_turn, out.success, is_complete(out.board))
        /\ disabled' = IF out.success THEN disabled \cup {<<out.row, out.col>>} ELSE disabled
        /\ last' = [Ran("ai_play", IF out.success THEN "Placed" ELSE "NoMove",
                        out.row, out.col, out.value) EXCEPT !.skipped = out.skipped]
        /\ used' = IF out.success THEN [used EXCEPT !.plays = @ + 1] ELSE used
    /\ UNCHANGED <<initial_board, pending>>

FillNext == FillPlay

SpecFill == FillInit /\ [][FillNext]_vars

-----------------------------------------------------------------------------
(* The candidate calculator on its own: get_candidates asked about grids that    *)
(* hold anything at all in a few cells, starting from the all-zero board of      *)
(* __init__.                                                                     *)

TestCellList == <<<<0, 0>>, <<4, 1>>, <<1, 2>>, <<0, 7>>, <<5, 5>>>>
TestCells == {TestCellList[i] : i \in 1..NumTestCells}
AskedCells == TestCells \cup {<<0, 1>>}

CandInit ==
    /\ board = EmptyGrid
    /\ last = Ran("__init__", "-", NoCell, NoCell, 0)
    /\ Idle

\* self.board[row][col] = value
CandSet ==
    /\ \E cell \in TestCells, value \in 0..N :
        /\ board' = [board EXCEPT ![cell[1]][cell[2]] = value]
        /\ last' = Ran("set", "-", cell[1], cell[2], value)
    /\ IdleStays

\* get_candidates(self.board, row, col)
CandAsk ==
    /\ \E cell \in AskedCells :
        last' = [Ran("get_candidates", "-", cell[1], cell[2], 0)
                    EXCEPT !.cands = get_candidates(board, cell[1], cell[2])]
    /\ UNCHANGED board
    /\ IdleStays

CandNext == CandSet \/ CandAsk

SpecCand == CandInit /\ [][CandNext]_vars

-----------------------------------------------------------------------------
(* Properties *)

RowCells(r) == {<<r, j>> : j \in Idx}
ColCells(c) == {<<i, c>> : i \in Idx}
BoxCells(r, c) == {<<i, j>> : i \in (B * r)..(B * r + B - 1), j \in (B * c)..(B * c + B - 1)}
Units == {RowCells(r) : r \in Idx} \cup {ColCells(c) : c \in Idx}
         \cup {BoxCells(r, c) : r \in 0..(B - 1), c \in 0..(B - 1)}

Times(b, U, d) == Cardinality({cell \in U : b[cell[1]][cell[2]] = d})

\* no digit twice in a row, column or box
NoRepeat(b) == \A U \in Units, d \in Digits : Times(b, U, d) <= 1

\* every digit exactly once in every row, column and box
Solved(b) == \A U \in Units, d \in Digits : Times(b, U, d) = 1

\* the other cells of a cell's row, column and box, and the digits they hold
Peers == [cell \in Cells |-> Neighbours(cell[1], cell[2]) \ {cell}]
PeerDigits(b, cell) == {b[p[1]][p[2]] : p \in Peers[cell]} \ {0}
PeerHolds(b, cell, d) == d \in PeerDigits(b, cell)

\* the cell is nonzero in the initial snapshot
IsClue(cell) == initial_board[cell[1]][cell[2]] # 0

\* a digit the user typed is in the cell / a digit the AI placed is in the cell
UserDigitAt(cell) ==
    initial_board[cell[1]][cell[2]] = 0 /\ board[cell[1]][cell[2]] # 0 /\ cell \notin disabled
AiDigitAt(cell) ==
    initial_board[cell[1]][cell[2]] = 0 /\ board[cell[1]][cell[2]] # 0 /\ cell \in disabled

\* the texts on_cell_edit can find in a cell: what the widget lets the user leave
\* there; for a clue, any text at all
Submissions(cell) ==
    IF IsClue(cell) THEN EditValues
    ELSE CellTexts(board, disabled, cell)

Submit(cell, value) ==
    on_cell_edit(board, initial_board, current_turn, pq, cell[1], cell[2], value)

AiPlaced(l) == l.op \in {"ai_turn", "ai_play"} /\ l.result = "Placed"

\* C1: in every reachable state no two equal nonzero digits share a row, a column or
\* a 3x3 box, and a complete grid holds each digit exactly once in every row, column
\* and box.
C1_GridValid == NoRepeat(board) /\ (is_complete(board) => Solved(board))

C1_Witness ==
    /\ is_complete(board)
    /\ \E cell \in Cells : UserDigitAt(cell)
    /\ \E cell \in Cells : AiDigitAt(cell)

\* C2: every clue of the initial snapshot keeps its value in the grid in every
\* reachable state, and a submission aimed at a clue, whatever its text, changes
\* nothing of the session.
C2_CluesKept ==
    \A cell \in Cells :
        IsClue(cell) =>
            /\ board[cell[1]][cell[2]] = initial_board[cell[1]][cell[2]]
            /\ \A value \in EditValues :
                LET out == Submit(cell, value)
                IN  /\ out.board = board
                    /\ out.pq = pq
                    /\ out.current_turn = current_turn

C2_Witness ==
    /\ current_turn = "user"
    /\ \E cell \in Cells : UserDigitAt(cell)
    /\ \E cell \in Cells : AiDigitAt(cell)
    /\ used.restarts > 0

\* C3: whatever the relabeling and the shuffles, the grid built from pattern, and
\* the grid after each of the four shuffles, holds every digit exactly once in
\* every row, column and box.
C3_GeneratedSolved == Solved(board)

C3_Witness ==
    /\ last.op = "shuffle_stacks"
    /\ \A i \in 0..(NumRelabels - 1) : board # get_base_pattern(Relabel(i))
    /\ board[0][0] # 1

\* C4: get_candidates returns the empty set for a filled cell and otherwise exactly
\* the digits found nowhere in the cell's row, column and box; it leaves the grid
\* alone, and asked twice in a row about the same cell it answers the same.
C4_Candidates ==
    [][last'.op = "get_candidates" =>
        /\ last'.cands =
             IF board[last'.row][last'.col] # 0 THEN {}
             ELSE {d \in Digits :
                     /\ \A j \in Idx : board[last'.row][j] # d
                     /\ \A i \in Idx : board[i][last'.col] # d
                     /\ \A cell \in BoxCells(last'.row \div B, last'.col \div B) :
                            board[cell[1]][cell[2]] # d}
        /\ board' = board
        /\ (last.op = "get_candidates" /\ last.row = last'.row /\ last.col = last'.col)
              => last'.cands = last.cands]_vars

C4_Witness ==
    /\ last.op = "get_candidates"
    /\ last.row = 0 /\ last.col = 1
    /\ board[0][0] = 5
    /\ board[0][1] = 0
    /\ 5 \notin last.cands
    /\ last.cands # {}

\* C5: a digit 1..9 submitted at a cell that is no clue, while a peer of the cell
\* holds that digit, leaves the grid, the queue and the turn flag as they were, and
\* is answered InvalidMove on the user's turn.
C5_InvalidMoveKeepsSession ==
    \A cell \in Cells :
        ~ IsClue(cell) =>
            LET held == PeerDigits(board, cell)
            IN  \A value \in Submissions(cell) :
                    (value.kind = "int" /\ value.num \in held) =>
                        LET out == Submit(cell, value)
                        IN  /\ out.board = board
                            /\ out.pq = pq
                            /\ out.current_turn = current_turn
                            /\ out.scheduled = 0
                            /\ current_turn = "user" => out.result = "InvalidMove"

C5_Witness ==
    /\ current_turn = "user"
    /\ \E cell \in Cells :
        /\ UserDigitAt(cell)
        /\ \E d \in Digits : d # board[cell[1]][cell[2]] /\ PeerHolds(board, cell, d)

\* a text that is no digit 1..9 (and not empty), or a clue as the target
OutOfRange(cell, value) ==
    \/ IsClue(cell)
    \/ value.kind = "text"
    \/ value.kind = "int" /\ value.num \notin Digits

\* C6 as stated: an OutOfRange submission leaves the grid unchanged, whatever the
\* target cell holds.
C6_OutOfRangeKeepsGrid ==
    \A cell \in Cells :
        \A value \in Submissions(cell) :
            OutOfRange(cell, value) => Submit(cell, value).board = board

\* C6 amended: an OutOfRange submission leaves the queue and the turn flag alone;
\* aimed at a clue, or made when it is not the user's turn, it leaves the grid
\* unchanged; otherwise it sets the target cell to 0 and leaves every other cell
\* unchanged.
C6_OutOfRangeClearsCell ==
    \A cell \in Cells :
        \A value \in Submissions(cell) :
            OutOfRange(cell, value) =>
                LET out == Submit(cell, value)
                IN  /\ out.pq = pq
                    /\ out.current_turn = current_turn
                    /\ out.scheduled = 0
                    /\ out.board =
                          IF IsClue(cell) \/ current_turn # "user"
                          THEN board
                          ELSE [board EXCEPT ![cell[1]][cell[2]] = 0]

C6_Witness ==
    /\ last.op = "on_cell_edit"
    /\ last.result = "ValueError"
    /\ board[last.row][last.col] = 0

\* C7: the cell an automated step writes was empty just before the write, and the
\* step writes that one cell only.
C7_WritesEmptyCell ==
    [][AiPlaced(last') =>
        /\ board[last'.row][last'.col] = 0
        /\ last'.value \in Digits
        /\ board' = [board EXCEPT ![last'.row][last'.col] = last'.value]]_vars

C7_Witness == AiPlaced(last) /\ last.skipped

\* the least number of candidates of an empty cell that has any
LiveCounts(b) ==
    {Cardinality(get_candidates(b, cell[1], cell[2])) :
        cell \in {x \in Cells : b[x[1]][x[2]] = 0 /\ get_candidates(b, x[1], x[2]) # {}}}

\* C8 as stated: the cell an automated step fills has the least number of
\* candidates among the empty cells that have any.
C8_MostConstrainedFirst ==
    [][AiPlaced(last') =>
        Cardinality(get_candidates(board, last'.row, last'.col)) = SetMin(LiveCounts(board))]_vars

\* C9: a reset makes the grid the initial snapshot, keeps the snapshot, gives the
\* turn to the user, leaves the grid incomplete when the snapshot has an empty cell,
\* and a reset right after it would change nothing.
C9_ResetLaw ==
    [][last'.op = "reset_board" =>
        /\ board' = initial_board
        /\ initial_board' = initial_board
        /\ current_turn' = "user"
        /\ (\E cell \in Cells : initial_board[cell[1]][cell[2]] = 0) => ~ is_complete(board')
        /\ reset_board(board', initial_board', current_turn') =
              [board |-> board', initial_board |-> initial_board',
               current_turn |-> current_turn']]_vars

C9_Witness ==
    /\ last.op = "reset_board"
    /\ board = initial_board
    /\ pq # EmptyPQ
    /\ pending > 0

\* C10 as stated: a new game starts on the user's turn; after an accepted
\* submission that leaves the grid incomplete it is the AI's turn; after an
\* automated step that placed a digit it is the user's turn.
C10_TurnProtocol ==
    /\ last.op \in {"__init__", "new_game"} => current_turn = "user"
    /\ (last.op = "on_cell_edit" /\ last.result \in {"Accepted", "Completed"}
          /\ ~ is_complete(board)) => current_turn = "ai"
    /\ AiPlaced(last) => current_turn = "user"

\* C10 amended: a session and a new game start on the user's turn; after an
\* accepted submission that leaves the grid incomplete it is the AI's turn; after
\* a step of ai_turn that placed a digit and left the grid incomplete it is the
\* user's turn; a step of ai_turn that completes the grid, and every step of
\* ai_play, leaves the turn flag as it was.
C10_TurnProtocolAmended ==
    /\ current_turn = "user"
    /\ [][/\ last'.op = "new_game" => current_turn' = "user"
          /\ (last'.op = "on_cell_edit" /\ last'.result \in {"Accepted", "Completed"}
                /\ ~ is_complete(board')) => current_turn' = "ai"
          /\ (last'.op = "ai_turn" /\ last'.result = "Placed" /\ ~ is_complete(board'))
                => current_turn' = "user"
          /\ (last'.op = "ai_turn" /\ last'.result = "Placed" /\ is_complete(board'))
                => current_turn' = current_turn
          /\ last'.op = "ai_play" => current_turn' = current_turn]_vars

C10_Witness == last.op = "ai_play" /\ last.result = "Placed" /\ current_turn = "ai"

\* a step in which on_cell_edit wrote the digit the user typed
UserPlaced(l) == l.op = "on_cell_edit" /\ l.result \in {"Accepted", "Completed"}

\* C11 as stated, for the deferred callback: the user's digit is written only while
\* the turn flag is "user", and the digit of the scheduled ai_turn only while the
\* turn flag is "ai" (the AI Play button, which by its docstring moves regardless
\* of the turn, is left out of the statement checked).
C11_TurnFlagExclusion ==
    [][/\ UserPlaced(last') => current_turn = "user"
       /\ (last'.op = "ai_turn" /\ last'.result = "Placed") => current_turn = "ai"]_vars

\* the number of empty cells of a grid
EmptyCount(b) == Cardinality({cell \in Cells : b[cell[1]][cell[2]] = 0})

\* C12: the puzzle generate_puzzle makes of a solved grid has exactly remove_count
\* empty cells, 40 <= remove_count <= 45, and agrees with the solved grid in every
\* other cell; the snapshot new_game takes equals the puzzle, which it leaves alone.
C12_PuzzleShape ==
    [][/\ last'.op = "generate_puzzle" =>
            /\ Solved(board)
            /\ EmptyCount(board') = last'.value
            /\ MinRemove <= last'.value /\ last'.value <= MaxRemove
            /\ \A cell \in Cells : board'[cell[1]][cell[2]] # 0 =>
                    board'[cell[1]][cell[2]] = board[cell[1]][cell[2]]
       /\ last'.op = "new_game" =>
            /\ initial_board' = board'
            /\ board' = board]_vars

C12_Witness ==
    /\ last.op = "new_game"
    /\ initial_board = board
    /\ EmptyCount(board) = MaxRemove

\* C13: an automated step that returns NoMove, the queue exhausted or the cell
\* popped without a candidate, hands back the grid it was given; stated for every
\* outcome ai_make_move can have in every reachable state.
C13_NoMoveKeepsGrid ==
    \A out \in ai_make_move(board, pq) : ~ out.success => out.board = board

C13_Witness ==
    /\ last.op \in {"ai_turn", "ai_play"}
    /\ last.result = "NoMove"
    /\ last.row # NoCell
    /\ board[last.row][last.col] = 0
    /\ get_candidates(board, last.row, last.col) = {}

\* C14: for every cell that is no clue and every digit d in 1..9, is_valid on the
\* grid with the cell cleared says yes exactly when d is a candidate of the cell in
\* that grid, and on the user's turn the submission of d is accepted exactly then
\* (the handler is run for the cells the user's key presses land in).
C14_ValidatorAgrees ==
    \A cell \in Cells :
        ~ IsClue(cell) =>
            LET b0 == [board EXCEPT ![cell[1]][cell[2]] = 0]
                candidates == get_candidates(b0, cell[1], cell[2])
            IN  \A d \in Digits :
                    /\ is_valid(b0, cell[1], cell[2], d) <=> d \in candidates
                    /\ (current_turn = "user" /\ cell \in EditCells(initial_board)
                          /\ IntText(d) \in Submissions(cell)) =>
                          (Submit(cell, IntText(d)).result \in {"Accepted", "Completed"}
                             <=> d \in candidates)

C14_Witness ==
    /\ UserPlaced(last)
    /\ \E cell \in Cells :
         /\ UserDigitAt(cell)
         /\ get_candidates([board EXCEPT ![cell[1]][cell[2]] = 0], cell[1], cell[2])
               \notin {{}, {board[cell[1]][cell[2]]}}
    /\ \E cell \in Cells :
         board[cell[1]][cell[2]] = 0 /\ get_candidates(board, cell[1], cell[2]) = {}

\* the entry a push made now for the cell would be
FreshEntry(b, cell) ==
    Entry(Cardinality(get_candidates(b, cell[1], cell[2])), cell[1], cell[2],
          get_candidates(b, cell[1], cell[2]))

\* C15 as stated: every entry of the queue has a count of at least 1 and a nonempty
\* candidate set.
C15_NoEmptyEntries == \A e \in DOMAIN pq : e.count >= 1 /\ e.cands # {}

\* C15 amended: every entry's count is the size of its candidate set; right after
\* a new game every entry has a count of at least 1; right after a digit is
\* placed, by the user or by the AI, the queue holds a fresh entry for each of the
\* 21 cells of the row, column and box of the cell written, the cell itself
\* included, and the one for the cell written has count 0 and no candidate.
C15_EntriesAmended ==
    /\ \A e \in DOMAIN pq : e.count = Cardinality(e.cands)
    /\ [][/\ \A e \in DOMAIN pq' : e.count = Cardinality(e.cands)
          /\ last'.op = "new_game" => \A e \in DOMAIN pq' : e.count >= 1
          /\ (UserPlaced(last') \/ AiPlaced(last')) =>
                /\ Cardinality(Neighbours(last'.row, last'.col)) = 21
                /\ \A cell \in Neighbours(last'.row, last'.col) :
                        FreshEntry(board', cell) \in DOMAIN pq'
                /\ Entry(0, last'.row, last'.col, {}) \in DOMAIN pq']_vars

C15_Witness ==
    /\ AiPlaced(last)
    /\ \E e \in DOMAIN pq : e.count = 0 /\ board[e.row][e.col] = 0
    /\ \E e \in DOMAIN pq : e.count = 0 /\ IsClue(<<e.row, e.col>>)

\* the empty cells that have a candidate
OpenCells(b) ==
    {cell \in Cells : b[cell[1]][cell[2]] = 0 /\ get_candidates(b, cell[1], cell[2]) # {}}

\* C16 as stated: right after the session is created and right after a new game the
\* queue holds exactly one entry for every empty cell that has a candidate, with
\* the cell's candidate count, and nothing else.
C16_FrontierRebuilt ==
    last.op \in {"__init__", "new_game"} =>
        /\ DOMAIN pq = {FreshEntry(board, cell) : cell \in OpenCells(board)}
        /\ \A e \in DOMAIN pq : pq[e] = 1

\* C17: a key release that finds the widget of a user-filled cell empty, on the
\* user's turn, sets that cell of the grid to 0 and leaves every other cell, the
\* initial snapshot, the queue and the turn flag as they were, and schedules no
\* ai_turn.
C17_ClearFrame ==
    [][(last'.op = "on_cell_edit" /\ last'.result = "Cleared") =>
        /\ current_turn = "user"
        /\ board' = [board EXCEPT ![last'.row][last'.col] = 0]
        /\ initial_board' = initial_board
        /\ pq' = pq
        /\ current_turn' = current_turn
        /\ pending' = pending]_vars

C17_Witness ==
    /\ last.op = "on_cell_edit"
    /\ last.result = "Cleared"
    /\ board[last.row][last.col] = 0
    /\ \E e \in DOMAIN pq : e.row = last.row /\ e.col = last.col /\ e.count = 0

\* the counts of the queue's entries for a cell
EntryCounts(q, cell) == {e.count : e \in {x \in DOMAIN q : x.row = cell[1] /\ x.col = cell[2]}}

\* C18 as stated: every empty cell that has a candidate has an entry in the queue,
\* the least count among its entries is its number of candidates, and an automated
\* step fails only when the grid is complete or some empty cell has no candidate.
C18_FrontierComplete ==
    /\ \A cell \in OpenCells(board) :
          /\ EntryCounts(pq, cell) # {}
          /\ SetMin(EntryCounts(pq, cell)) = Cardinality(get_candidates(board, cell[1], cell[2]))
    /\ (\E out \in ai_make_move(board, pq) : ~ out.success) =>
          \/ is_complete(board)
          \/ \E cell \in Cells : board[cell[1]][cell[2]] = 0
                                  /\ get_candidates(board, cell[1], cell[2]) = {}

\* the number of entries a step of ai_make_move popped, q the queue before it, q2
\* the queue after it, placed telling whether it pushed the 21 entries of a move
Popped(q, q2, placed) == PQSize(q) - (PQSize(q2) - (IF placed THEN 21 ELSE 0))

\* C19: a step of AI Play pops at most as many entries as the queue holds; it
\* places a digit only on a grid that is not complete, and then leaves one empty
\* cell fewer; so the digits placed in a run of automated steps and the cells still
\* empty add up to the cells that were empty when the run began, and a run has
\* at most that many placements before the grid is complete or a step returns
\* NoMove.
C19_FillTerminates ==
    /\ used.plays = 0
    /\ [][last'.op = "ai_play" =>
            /\ Popped(pq, pq', AiPlaced(last')) >= 0
            /\ Popped(pq, pq', AiPlaced(last')) <= PQSize(pq)
            /\ last'.result \in {"Placed", "NoMove"}
            /\ AiPlaced(last') => /\ ~ is_complete(board)
                                  /\ EmptyCount(board') = EmptyCount(board) - 1
            /\ used'.plays + used'.edits + EmptyCount(board') = EmptyCount(initial_board)
            /\ is_complete(board') => used'.plays + used'.edits = EmptyCount(initial_board)]_vars

C19_Witness ==
    /\ is_complete(board)
    /\ last.op = "ai_play"
    /\ last.result = "NoMove"
    /\ used.plays = EmptyCount(initial_board)

\* a step of ai_turn that found no move, or placed the digit that completed the grid
StuckStep(l, b) ==
    l.op = "ai_turn" /\ (l.result = "NoMove" \/ (l.result = "Placed" /\ is_complete(b)))

\* every text the user can leave in any cell changes nothing of the session
SubmissionsIgnored ==
    \A cell \in Cells :
        \A value \in Submissions(cell) :
            LET out == Submit(cell, value)
            IN  out.board = board /\ out.pq = pq /\ out.current_turn = current_turn
                /\ out.scheduled = 0

====
